---- MODULE Spec2Model ----
(***************************************************************************)
(* Model of epub_splitter.py: an EPUB is read into an ordered list of      *)
(* chapter records plus an optional cover image, the list is split into    *)
(* batches, and every batch is written as an EPUB container of its own.    *)
(*                                                                         *)
(* Python str values are sequences of one-character strings, so that       *)
(* lower(), endswith(), split('/'), sort() and the f-string formatting of  *)
(* the script are computed, not assumed.  None is the sequence <<"None">>, *)
(* which no str of the model equals (its only element is not a character). *)
(***************************************************************************)
EXTENDS Integers, Sequences, FiniteSets, TLC

\* ------------------------------------------------------------------------
\* Bounds of the exploration
\* ------------------------------------------------------------------------
MaxFiles == 3        \* longest entry list of the source archive
MaxSize == 2         \* largest -splitsize explored
MaxPos == 3          \* largest START / END of -singlerange explored

\* ------------------------------------------------------------------------
\* Python values
\* ------------------------------------------------------------------------
None == <<"None">>

Truthy(x) == x # None /\ x # <<>>

Range(s) == {s[k] : k \in 1..Len(s)}

Min(a, b) == IF a < b THEN a ELSE b

Max(a, b) == IF a > b THEN a ELSE b

\* the characters of the model in code point order
CodePoints == <<" ", "-", ".", "/", "0", "1", "2", "3", "4", "5", "6", "7", "8", "9",
                "A", "B", "C", "D", "E", "F", "G", "H", "I", "J", "K", "L", "M",
                "N", "O", "P", "Q", "R", "S", "T", "U", "V", "W", "X", "Y", "Z", "_",
                "a", "b", "c", "d", "e", "f", "g", "h", "i", "j", "k", "l", "m",
                "n", "o", "p", "q", "r", "s", "t", "u", "v", "w", "x", "y", "z">>

\* character -> rank of its code point among the characters of the model
OrdTable ==
    [c \in {CodePoints[k] : k \in 1..Len(CodePoints)} |->
        CHOOSE k \in 1..Len(CodePoints) : CodePoints[k] = c]

ord(c) == OrdTable[c]

IsUpper(c) == ord(c) >= ord("A") /\ ord(c) <= ord("Z")

IsDigit(c) == ord(c) >= ord("0") /\ ord(c) <= ord("9")

IsSpace(c) == c = " "

\* str.lower()
lower(s) == [k \in 1..Len(s) |->
               IF IsUpper(s[k]) THEN CodePoints[ord(s[k]) - ord("A") + ord("a")] ELSE s[k]]

\* str.endswith(suffix)
endswith(s, suf) ==
    /\ Len(suf) <= Len(s)
    /\ SubSeq(s, Len(s) - Len(suf) + 1, Len(s)) = suf

\* sub in s
contains(s, sub) ==
    \E k \in 1..(Len(s) - Len(sub) + 1) : SubSeq(s, k, k + Len(sub) - 1) = sub

\* s.split('/')[-1]
LastSegment(s) ==
    LET slashes == {k \in 1..Len(s) : s[k] = "/"}
    IN  IF slashes = {} THEN s
        ELSE SubSeq(s, (CHOOSE k \in slashes : \A j \in slashes : j <= k) + 1, Len(s))

\* s.rsplit('.', 1)[0]
BeforeLastDot(s) ==
    LET dots == {k \in 1..Len(s) : s[k] = "."}
    IN  IF dots = {} THEN s
        ELSE SubSeq(s, 1, (CHOOSE k \in dots : \A j \in dots : j <= k) - 1)

\* re.sub(r'^\d+-', '', s): the digits of \d+ are greedy, and a match needs
\* one digit at least and a '-' right after the run of digits
StripNumberPrefix(s) ==
    LET nd == CHOOSE n \in 0..Len(s) :
                  /\ \A k \in 1..n : IsDigit(s[k])
                  /\ (n < Len(s) => ~IsDigit(s[n + 1]))
    IN  IF nd >= 1 /\ nd < Len(s) /\ s[nd + 1] = "-"
          THEN SubSeq(s, nd + 2, Len(s))
          ELSE s

\* s.replace('-', ' ')
DashToSpace(s) == [k \in 1..Len(s) |-> IF s[k] = "-" THEN " " ELSE s[k]]

\* str.strip()
strip(s) ==
    LET keep == {k \in 1..Len(s) : ~IsSpace(s[k])}
    IN  IF keep = {} THEN <<>>
        ELSE SubSeq(s, CHOOSE k \in keep : \A j \in keep : k <= j,
                       CHOOSE k \in keep : \A j \in keep : j <= k)

\* re.sub(r'\s+', '_', s): every maximal run of whitespace becomes one '_'
RECURSIVE CollapseSpaces(_)
CollapseSpaces(s) ==
    IF s = <<>> THEN <<>>
    ELSE IF IsSpace(Head(s))
      THEN IF Len(s) >= 2 /\ IsSpace(s[2])
             THEN CollapseSpaces(Tail(s))
             ELSE <<"_">> \o CollapseSpaces(Tail(s))
      ELSE <<Head(s)>> \o CollapseSpaces(Tail(s))

\* str(n) of an f-string, n >= 0
RECURSIVE Str(_)
Str(n) ==
    IF n < 10 THEN <<CodePoints[ord("0") + n]>>
    ELSE Str(n \div 10) \o <<CodePoints[ord("0") + (n % 10)]>>

\* a < b for str: the order list.sort() uses
StrLess(a, b) ==
    \/ /\ Len(a) < Len(b)
       /\ SubSeq(b, 1, Len(a)) = a
    \/ \E k \in 1..Min(Len(a), Len(b)) :
          /\ SubSeq(a, 1, k - 1) = SubSeq(b, 1, k - 1)
          /\ ord(a[k]) < ord(b[k])

\* lst[a:b] with Python's clamping of the two indices
PySlice(lst, a, b) ==
    LET n == Len(lst)
        lo == IF a < 0 THEN Max(a + n, 0) ELSE Min(a, n)
        hi == IF b < 0 THEN Max(b + n, 0) ELSE Min(b, n)
    IN  SubSeq(lst, lo + 1, hi)

\* list(range(start, stop, step)), step # 0
PyRange(start, stop, step) ==
    LET cnt == IF step > 0
                 THEN IF stop > start THEN (stop - start + step - 1) \div step ELSE 0
                 ELSE IF start > stop THEN (start - stop - step - 1) \div (-step) ELSE 0
    IN  [k \in 1..cnt |-> start + (k - 1) * step]


\* ------------------------------------------------------------------------
\* String literals of the script
\* ------------------------------------------------------------------------
DotHtml == <<".", "h", "t", "m", "l">>

DotXhtml == <<".", "x", "h", "t", "m", "l">>

DotJpg == <<".", "j", "p", "g">>

DotJpeg == <<".", "j", "p", "e", "g">>

DotPng == <<".", "p", "n", "g">>

DotEpub == <<".", "e", "p", "u", "b">>

CoverWord == <<"c", "o", "v", "e", "r">>

MimetypeName == <<"m", "i", "m", "e", "t", "y", "p", "e">>

ContainerName == <<"M", "E", "T", "A", "-", "I", "N", "F", "/", "c", "o", "n", "t", "a", "i", "n", "e", "r", ".", "x", "m", "l">>

StylesName == <<"s", "t", "y", "l", "e", "s", ".", "c", "s", "s">>

OpfName == <<"c", "o", "n", "t", "e", "n", "t", ".", "o", "p", "f">>

TocName == <<"t", "o", "c", ".", "n", "c", "x">>

CoverId == <<"c", "o", "v", "e", "r">>

CssId == <<"c", "s", "s">>

NcxId == <<"n", "c", "x">>

ChapPrefix == <<"c", "h", "a", "p">>

NavPointPrefix == <<"n", "a", "v", "P", "o", "i", "n", "t", "-">>

PartInfix == <<"_", "p", "a", "r", "t", "_">>

\* ------------------------------------------------------------------------
\* Command line (section 1) and derived names (section 2)
\* ------------------------------------------------------------------------
\* the positional argument of the explored runs
epub_file == <<"i", "n", "/", "b", "k", ".", "e", "p", "u", "b">>

\* default of -splitsize
DefaultSplitSize == 100

\* the paths of the model hold no backslash, so '/' is the only separator found
get_base_name(input_path) ==
    LET p == IF endswith(lower(input_path), DotEpub)
               THEN SubSeq(input_path, 1, Len(input_path) - 5)
               ELSE input_path
    IN  LastSegment(p)

get_base_dir(input_path) ==
    LET slashes == {k \in 1..Len(input_path) : input_path[k] = "/"}
    IN  IF slashes = {} THEN <<".", "/">>
        ELSE SubSeq(input_path, 1, CHOOSE k \in slashes : \A j \in slashes : j <= k)

base_name == get_base_name(epub_file)

\* -outdir is not given in the explored runs
output_dir == get_base_dir(epub_file)

\* ------------------------------------------------------------------------
\* Inputs: the entries of the source archive and the options
\* ------------------------------------------------------------------------
EntryNames == { <<"a", "/", "x", ".", "h", "t", "m", "l">>,
                <<"b", "/", "x", ".", "h", "t", "m", "l">>,
                <<"1", "-", "c", "o", "v", "e", "r", ".", "x", "h", "t", "m", "l">>,
                <<"i", "/", "C", "o", "v", "e", "r", ".", "P", "N", "G">>,
                <<"c", "o", "v", "e", "r", ".", "j", "p", "g">> }

\* the values of -title explored: absent, empty, with whitespace to sanitise
Titles == { None, <<>>, <<" ", "a", " ", " ", "b">> }

\* the values of -splitsize explored (type=int accepts zero and negatives)
SplitSizes == (0 - 1)..MaxSize

\* -singlerange absent (argparse leaves None, which is falsy like the empty list)
NoRange == <<>>

Ranges == {<<s, e>> : s \in 0..MaxPos, e \in 0..MaxPos}

\* entry lists without repeated names, in the archive's listing order
EntryLists ==
    UNION { {f \in [1..n -> EntryNames] : \A j, k \in 1..n : j # k => f[j] # f[k]}
            : n \in 0..MaxFiles }

HasImageExt(name) ==
    \/ endswith(lower(name), DotJpg)
    \/ endswith(lower(name), DotJpeg)
    \/ endswith(lower(name), DotPng)


\* ------------------------------------------------------------------------
\* State
\* ------------------------------------------------------------------------
VARIABLES
    pc,                \* position of the script
    exc,               \* the exception that ended the run, or "none"
    config,            \* parsed options: splitsize, title, singlerange
    files,             \* z.namelist() of the source archive
    data,              \* bytes of every entry of the source archive
    chapters,          \* chapter records, in reading order
    cover_image,       \* bytes of the cover, or None
    cover_image_name,  \* base name of the cover entry, or None
    cover_media_type,  \* "image/jpeg", "image/png" or "None"
    chapter_batches,   \* the batches to write
    i,                 \* 1-based index of the batch being written
    start_chapter,     \* declared first position of the batch
    end_chapter,       \* declared last position of the batch
    part_title,        \* display title of the batch
    output_name,       \* path of the container being written
    manifest_items,    \* manifest built so far
    spine_items,       \* spine built so far
    idx,               \* 1-based position of the next chapter of the batch
    disk               \* path -> members written to the container at that path

vars == <<pc, exc, config, files, data, chapters, cover_image, cover_image_name,
          cover_media_type, chapter_batches, i, start_chapter, end_chapter,
          part_title, output_name, manifest_items, spine_items, idx, disk>>

readVars == <<chapters, cover_image, cover_image_name, cover_media_type>>

loopVars == <<start_chapter, end_chapter, part_title, output_name>>

split_size == config.splitsize

Init ==
    /\ pc = "read"
    /\ exc = "none"
    /\ files \in EntryLists
    /\ \E empties \in SUBSET {e \in Range(files) : HasImageExt(e)} :
          data = [e \in Range(files) |-> IF e \in empties THEN <<>> ELSE e]
    /\ \E sr \in {NoRange} \cup Ranges, t \in Titles :
         \E sz \in (IF sr = NoRange THEN SplitSizes ELSE {DefaultSplitSize}) :
            config = [splitsize |-> sz, title |-> t, singlerange |-> sr]
    /\ chapters = <<>>
    /\ cover_image = None
    /\ cover_image_name = None
    /\ cover_media_type = "None"
    /\ chapter_batches = <<>>
    /\ i = 0
    /\ start_chapter = 0
    /\ end_chapter = 0
    /\ part_title = None
    /\ output_name = None
    /\ manifest_items = <<>>
    /\ spine_items = <<>>
    /\ idx = 0
    /\ disk = <<>>

\* ------------------------------------------------------------------------
\* 3. Extract chapters + cover image
\* ------------------------------------------------------------------------
\* html_files: the entries ending in .html or .xhtml, sorted
html_files ==
    LET sel == SelectSeq(files, LAMBDA f : endswith(f, DotHtml) \/ endswith(f, DotXhtml))
    IN  SortSeq(sel, StrLess)

\* BeautifulSoup(content, 'html.parser').decode_contents(): the markup of the
\* entry as the lenient parser serialises it
decode_contents(content) == <<"soup">> \o content

chapter_title_of(base_file) ==
    LET t1 == IF endswith(base_file, DotHtml) \/ endswith(base_file, DotXhtml)
                THEN BeforeLastDot(base_file)
                ELSE base_file
    IN  strip(DashToSpace(StripNumberPrefix(t1)))

ExtractChapter(file_name) ==
    [file_name |-> LastSegment(file_name),
     content   |-> decode_contents(data[file_name]),
     title     |-> chapter_title_of(LastSegment(file_name))]

\* the test of the cover scan on one entry name
IsCoverEntry(file_name) ==
    /\ contains(lower(file_name), CoverWord)
    /\ \/ endswith(lower(file_name), DotJpg)
       \/ endswith(lower(file_name), DotJpeg)
       \/ endswith(lower(file_name), DotPng)

\* the media type the scan assigns to the cover's base name
MediaTypeOf(name) ==
    IF endswith(name, DotJpg) \/ endswith(name, DotJpeg) THEN "image/jpeg"
    ELSE IF endswith(name, DotPng) THEN "image/png"
    ELSE "None"

\* index in files of the entry the scan breaks on, 0 when the loop runs out
CoverIndex ==
    LET hits == {k \in 1..Len(files) : IsCoverEntry(files[k])}
    IN  IF hits = {} THEN 0 ELSE CHOOSE k \in hits : \A j \in hits : k <= j

ReadArchive ==
    /\ pc = "read"
    /\ LET sorted == html_files
       IN  chapters' = [k \in 1..Len(sorted) |-> ExtractChapter(sorted[k])]
    /\ LET found == CoverIndex
       IN  IF found = 0
             THEN UNCHANGED <<cover_image, cover_image_name, cover_media_type>>
             ELSE /\ cover_image' = data[files[found]]
                  /\ cover_image_name' = LastSegment(files[found])
                  /\ cover_media_type' = MediaTypeOf(LastSegment(files[found]))
    /\ pc' = "split"
    /\ UNCHANGED <<exc, config, files, data, chapter_batches, i, loopVars,
                   manifest_items, spine_items, idx, disk>>

\* ------------------------------------------------------------------------
\* 4. Split logic
\* ------------------------------------------------------------------------
\* chunks with windows one chapter short: lst[i:i + n - 1]
chunks_short(lst, n) ==
    LET starts == PyRange(0, Len(lst), n)
    IN  [k \in 1..Len(starts) |-> PySlice(lst, starts[k], starts[k] + n - 1)]

\* list(chunks(lst, n)), n # 0
chunks(lst, n) ==
    LET starts == PyRange(0, Len(lst), n)
    IN  [k \in 1..Len(starts) |-> PySlice(lst, starts[k], starts[k] + n)]

\* the range test without its start > end clause
RangeIsInvalid_unordered(start, end) == start < 1 \/ end > Len(chapters)

RangeIsInvalid(start, end) == start < 1 \/ end > Len(chapters) \/ start > end

SplitSingleRange ==
    /\ pc = "split"
    /\ config.singlerange # <<>>
    /\ LET start == config.singlerange[1]
           end   == config.singlerange[2]
       IN  IF RangeIsInvalid(start, end)
             THEN /\ exc' = "ValueError: Invalid range"
                  /\ pc' = "error"
                  /\ UNCHANGED chapter_batches
             ELSE /\ chapter_batches' = <<PySlice(chapters, start - 1, end)>>
                  /\ pc' = "loop"
                  /\ UNCHANGED exc
    /\ UNCHANGED <<config, files, data, readVars, i, loopVars,
                   manifest_items, spine_items, idx, disk>>

SplitChunks ==
    /\ pc = "split"
    /\ config.singlerange = <<>>
    /\ IF split_size = 0
         THEN /\ exc' = "ValueError: range() arg 3 must not be zero"
              /\ pc' = "error"
              /\ UNCHANGED chapter_batches
         ELSE /\ chapter_batches' = chunks(chapters, split_size)
              /\ pc' = "loop"
              /\ UNCHANGED exc
    /\ UNCHANGED <<config, files, data, readVars, i, loopVars,
                   manifest_items, spine_items, idx, disk>>


\* ------------------------------------------------------------------------
\* 5. Write each EPUB file
\* ------------------------------------------------------------------------
batch == chapter_batches[i]

\* zipfile.ZipFile(output_name, 'w') keeps its default compression, ZIP_STORED
Member(name, compress_type, doc) ==
    [name |-> name, compress_type |-> compress_type, doc |-> doc]

writestr(name, doc) ==
    disk' = [disk EXCEPT ![output_name] = Append(@, Member(name, "ZIP_STORED", doc))]

StartChapter(n) ==
    IF config.singlerange # <<>> THEN config.singlerange[1]
    ELSE (n - 1) * split_size + 1

\* the end of a full window, whatever the length of the batch
EndChapter_full(n) ==
    IF config.singlerange # <<>> THEN config.singlerange[2]
    ELSE n * split_size

EndChapter(n) ==
    IF config.singlerange # <<>> THEN config.singlerange[2]
    ELSE (n - 1) * split_size + 1 + Len(chapter_batches[n]) - 1

PartTitle(s, e) ==
    IF Truthy(config.title) THEN config.title
    ELSE base_name \o <<" ">> \o Str(s) \o <<"-">> \o Str(e)

safe_title == CollapseSpaces(strip(config.title))

\* the numbered file name, whether a title is given or not
OutputName_numbered(s, e) ==
    output_dir \o base_name \o <<"_">> \o Str(s) \o <<"_">> \o Str(e) \o DotEpub

OutputName(s, e) ==
    IF Truthy(config.title)
      THEN output_dir \o safe_title \o DotEpub
      ELSE output_dir \o base_name \o <<"_">> \o Str(s) \o <<"_">> \o Str(e) \o DotEpub

\* the identifier of the package and of the navigation document
Identifier(n) == base_name \o PartInfix \o Str(n)

\* head of the for loop up to the with statement: the next batch is taken,
\* its names are computed and the output file is created or truncated
OpenOutput ==
    /\ pc = "loop"
    /\ i < Len(chapter_batches)
    /\ i' = i + 1
    /\ start_chapter' = StartChapter(i + 1)
    /\ end_chapter' = EndChapter(i + 1)
    /\ part_title' = PartTitle(start_chapter', end_chapter')
    /\ output_name' = OutputName(start_chapter', end_chapter')
    /\ disk' = [p \in DOMAIN disk \cup {output_name'} |->
                   IF p = output_name' THEN <<>> ELSE disk[p]]
    /\ pc' = "mimetype"
    /\ UNCHANGED <<exc, config, files, data, readVars, chapter_batches,
                   manifest_items, spine_items, idx>>

\* the mimetype member left out
WriteMimetype_skipped ==
    /\ pc = "mimetype"
    /\ pc' = "container"
    /\ UNCHANGED <<exc, config, files, data, readVars, chapter_batches, i, loopVars,
                   manifest_items, spine_items, idx, disk>>

WriteMimetype ==
    /\ pc = "mimetype"
    /\ disk' = [disk EXCEPT ![output_name] =
                   Append(@, Member(MimetypeName, "ZIP_STORED",
                                    [text |-> "application/epub+zip"]))]
    /\ pc' = "container"
    /\ UNCHANGED <<exc, config, files, data, readVars, chapter_batches, i, loopVars,
                   manifest_items, spine_items, idx>>

WriteContainer ==
    /\ pc = "container"
    /\ writestr(ContainerName, [rootfile |-> OpfName])
    /\ pc' = "cover"
    /\ UNCHANGED <<exc, config, files, data, readVars, chapter_batches, i, loopVars,
                   manifest_items, spine_items, idx>>

WriteCover ==
    /\ pc = "cover"
    /\ IF Truthy(cover_image) /\ Truthy(cover_image_name)
         THEN writestr(cover_image_name, [bytes |-> cover_image])
         ELSE UNCHANGED disk
    /\ pc' = "styles"
    /\ UNCHANGED <<exc, config, files, data, readVars, chapter_batches, i, loopVars,
                   manifest_items, spine_items, idx>>

CoverItem ==
    [id |-> CoverId, href |-> cover_image_name, media_type |-> cover_media_type,
     properties |-> "cover-image"]

CssItem ==
    [id |-> CssId, href |-> StylesName, media_type |-> "text/css", properties |-> ""]

\* the manifest id numbered by the original position of the chapter
ChapterItem_global(n, chapter) ==
    [id |-> ChapPrefix \o Str(start_chapter + n - 1), href |-> chapter.file_name,
     media_type |-> "application/xhtml+xml", properties |-> ""]

ChapterItem(n, chapter) ==
    [id |-> ChapPrefix \o Str(n), href |-> chapter.file_name,
     media_type |-> "application/xhtml+xml", properties |-> ""]

NcxItem ==
    [id |-> NcxId, href |-> TocName, media_type |-> "application/x-dtbncx+xml",
     properties |-> ""]

\* styles.css is written, then the manifest is started with the cover item
\* (if the cover has a name and a media type) and the stylesheet item
WriteStyles ==
    /\ pc = "styles"
    /\ writestr(StylesName, [css |-> "styles"])
    /\ manifest_items' =
          (IF Truthy(cover_image_name) /\ cover_media_type # "None"
             THEN <<CoverItem>> ELSE <<>>) \o <<CssItem>>
    /\ spine_items' = <<>>
    /\ idx' = 1
    /\ pc' = "chapters"
    /\ UNCHANGED <<exc, config, files, data, readVars, chapter_batches, i, loopVars>>

chapter_html(chapter) == [title |-> chapter.title, body |-> chapter.content]

\* one iteration of the chapter loop
WriteChapter ==
    /\ pc = "chapters"
    /\ idx <= Len(batch)
    /\ manifest_items' = Append(manifest_items, ChapterItem(idx, batch[idx]))
    /\ spine_items' = Append(spine_items, ChapPrefix \o Str(idx))
    /\ writestr(batch[idx].file_name, chapter_html(batch[idx]))
    /\ idx' = idx + 1
    /\ UNCHANGED <<pc, exc, config, files, data, readVars, chapter_batches, i, loopVars>>

content_opf ==
    [title      |-> part_title,
     language   |-> "en",
     identifier |-> Identifier(i),
     cover_meta |-> Truthy(cover_image_name),
     manifest   |-> Append(manifest_items, NcxItem),
     spine      |-> spine_items,
     spine_toc  |-> NcxId]

\* the chapter loop is over: the manifest is closed and content.opf written
WriteOpf ==
    /\ pc = "chapters"
    /\ idx > Len(batch)
    /\ manifest_items' = Append(manifest_items, NcxItem)
    /\ writestr(OpfName, content_opf)
    /\ pc' = "toc"
    /\ UNCHANGED <<exc, config, files, data, readVars, chapter_batches, i, loopVars,
                   spine_items, idx>>

NavPoint(n, label, src) ==
    [id |-> NavPointPrefix \o Str(n), playOrder |-> Str(n), label |-> label, src |-> src]

nav_points ==
    (IF Truthy(cover_image_name)
       THEN <<NavPoint(0, <<"C", "o", "v", "e", "r">>, cover_image_name)>>
       ELSE <<>>)
    \o [n \in 1..Len(batch) |-> NavPoint(n, batch[n].title, batch[n].file_name)]

toc_ncx ==
    [uid |-> Identifier(i), docTitle |-> part_title, navMap |-> nav_points]

\* toc.ncx is written and the with statement closes the container
WriteToc ==
    /\ pc = "toc"
    /\ writestr(TocName, toc_ncx)
    /\ pc' = "loop"
    /\ UNCHANGED <<exc, config, files, data, readVars, chapter_batches, i, loopVars,
                   manifest_items, spine_items, idx>>

\* the for loop has no batch left
Finish ==
    /\ pc = "loop"
    /\ i = Len(chapter_batches)
    /\ pc' = "done"
    /\ UNCHANGED <<exc, config, files, data, readVars, chapter_batches, i, loopVars,
                   manifest_items, spine_items, idx, disk>>

Next ==
    \/ ReadArchive
    \/ SplitSingleRange
    \/ SplitChunks
    \/ OpenOutput
    \/ WriteMimetype
    \/ WriteContainer
    \/ WriteCover
    \/ WriteStyles
    \/ WriteChapter
    \/ WriteOpf
    \/ WriteToc
    \/ Finish

Spec == Init /\ [][Next]_vars


\* ------------------------------------------------------------------------
\* Vocabulary of the properties
\* ------------------------------------------------------------------------
FixedMode == config.singlerange = <<>>

RangeMode == config.singlerange # <<>>

\* the split is over and did not raise
Batched == pc \notin {"read", "split", "error"}

\* a batch has been taken by the loop: its names are computed, its file exists
InBatch == Batched /\ i >= 1

\* the container of batch i is complete
Closed == pc \in {"loop", "done"} /\ i >= 1

outzip == disk[output_name]

MemberNames(c) == [k \in 1..Len(c) |-> c[k].name]

IsPrefix(a, b) == Len(a) <= Len(b) /\ SubSeq(b, 1, Len(a)) = a

HasMember(c, name) == \E k \in 1..Len(c) : c[k].name = name

\* zipfile reads a name through its table of names, which keeps the member
\* added last under that name
ReadMember(c, name) ==
    c[CHOOSE k \in 1..Len(c) :
         /\ c[k].name = name
         /\ \A j \in 1..Len(c) : c[j].name = name => j <= k]

OpfOf(c) == ReadMember(c, OpfName).doc

TocOf(c) == ReadMember(c, TocName).doc

RECURSIVE Flatten(_)
Flatten(ss) == IF ss = <<>> THEN <<>> ELSE Head(ss) \o Flatten(Tail(ss))

ChapId(n) == ChapPrefix \o Str(n)

\* the chapter documents of a container, in member order
ChapterDocs(c) ==
    LET sel == SelectSeq(c, LAMBDA m : "body" \in DOMAIN m.doc)
    IN  [k \in 1..Len(sel) |-> sel[k].doc]

DocsOf(b) == [n \in 1..Len(b) |-> [title |-> b[n].title, body |-> b[n].content]]

\* ------------------------------------------------------------------------
\* C1  Fixed-size batching with a batch size >= 1: the batches are non-empty,
\* their concatenation in batch order is the chapter sequence itself, every
\* batch but the last has exactly `size` chapters and the last has between 1
\* and `size`.
\* ------------------------------------------------------------------------
C1_FixedBatching ==
    (FixedMode /\ split_size >= 1 /\ Batched) =>
        /\ Flatten(chapter_batches) = chapters
        /\ \A k \in 1..Len(chapter_batches) :
              /\ Len(chapter_batches[k]) >= 1
              /\ Len(chapter_batches[k]) <= split_size
              /\ (k < Len(chapter_batches) => Len(chapter_batches[k]) = split_size)

C1_Witness ==
    /\ FixedMode /\ split_size = 2 /\ pc = "done"
    /\ Len(chapters) = 3
    /\ Len(chapter_batches) = 2
    /\ Len(chapter_batches[2]) = 1

\* ------------------------------------------------------------------------
\* C2  Explicit range mode: the run fails with the range error, with no
\* output container written, exactly when start < 1 or end > number of
\* chapters or start > end; otherwise exactly one batch is produced, its
\* declared positions are (start, end) and its content is the chapters at
\* the original positions start..end, in order.
\* ------------------------------------------------------------------------
C2_RangeMode ==
    (RangeMode /\ pc \notin {"read", "split"}) =>
        LET start == config.singlerange[1]
            end   == config.singlerange[2]
        IN  IF start < 1 \/ end > Len(chapters) \/ start > end
              THEN /\ pc = "error"
                   /\ exc = "ValueError: Invalid range"
                   /\ DOMAIN disk = {}
              ELSE /\ pc # "error"
                   /\ exc = "none"
                   /\ Len(chapter_batches) = 1
                   /\ chapter_batches[1] = [k \in 1..(end - start + 1) |-> chapters[start + k - 1]]
                   /\ (i >= 1 => start_chapter = start /\ end_chapter = end)
                   /\ (pc = "done" => Cardinality(DOMAIN disk) = 1)

C2_Witness ==
    /\ RangeMode /\ pc = "done"
    /\ config.singlerange = <<2, 3>>
    /\ Len(chapters) = 3
    /\ ChapterDocs(outzip) = DocsOf(SubSeq(chapters, 2, 3))

\* ------------------------------------------------------------------------
\* C3  Non-positive batch size in fixed-size mode: the run never completes
\* successfully and writes no output container.
\* ------------------------------------------------------------------------
C3_NonPositiveSizeFails ==
    (FixedMode /\ split_size < 1) => (pc # "done" /\ DOMAIN disk = {})

\* ------------------------------------------------------------------------
\* C4  Round trip of a written container: every chapter of the batch has a
\* manifest id of its own with exactly one spine idref and one navigation
\* target, the member its href names reads back as that chapter's title and
\* content, and the file names of the batch are pairwise distinct.
\* ------------------------------------------------------------------------
C4_RoundTrip ==
    Closed =>
        LET opf == OpfOf(outzip)
            toc == TocOf(outzip)
        IN  \A n \in 1..Len(batch) :
               LET items == {k \in 1..Len(opf.manifest) : opf.manifest[k].id = ChapId(n)}
               IN  /\ Cardinality(items) = 1
                   /\ Cardinality({k \in 1..Len(opf.spine) : opf.spine[k] = ChapId(n)}) = 1
                   /\ \A k \in items :
                         /\ Cardinality({j \in 1..Len(toc.navMap) :
                                           toc.navMap[j].src = opf.manifest[k].href}) = 1
                         /\ ReadMember(outzip, opf.manifest[k].href).doc
                               = [title |-> batch[n].title, body |-> batch[n].content]
                   /\ \A m \in 1..Len(batch) :
                         m # n => batch[m].file_name # batch[n].file_name

\* ------------------------------------------------------------------------
\* C5  Cover selection: the cover is the first entry, in listing order, whose
\* lower-cased name contains "cover" and ends in .jpg, .jpeg or .png; a
\* selected cover has the media type of its extension (jpg/jpeg ->
\* image/jpeg, png -> image/png) whatever the case of the extension; there
\* is no cover only when no entry matches.
\* ------------------------------------------------------------------------
C5_CoverSelection ==
    pc # "read" =>
        LET hits == {k \in 1..Len(files) :
                        /\ contains(lower(files[k]), CoverWord)
                        /\ HasImageExt(files[k])}
        IN  IF hits = {}
              THEN cover_image_name = None
              ELSE LET k == CHOOSE h \in hits : \A j \in hits : h <= j
                   IN  /\ cover_image_name = LastSegment(files[k])
                       /\ cover_image = data[files[k]]
                       /\ cover_media_type =
                             (IF endswith(lower(files[k]), DotPng)
                                THEN "image/png" ELSE "image/jpeg")

\* ------------------------------------------------------------------------
\* C6  No dangling reference in a written container: every manifest href and
\* every navigation target names a member of the container, and a cover meta
\* reference comes with a manifest item of id "cover".
\* ------------------------------------------------------------------------
C6_NoDanglingReference ==
    Closed =>
        LET opf == OpfOf(outzip)
            toc == TocOf(outzip)
        IN  /\ \A k \in 1..Len(opf.manifest) : HasMember(outzip, opf.manifest[k].href)
            /\ \A k \in 1..Len(toc.navMap) : HasMember(outzip, toc.navMap[k].src)
            /\ (opf.cover_meta => \E k \in 1..Len(opf.manifest) : opf.manifest[k].id = CoverId)


\* ------------------------------------------------------------------------
\* C7  Writer ordering: the members of every container are written in the
\* order mimetype (stored without compression), container descriptor, cover
\* bytes if there are any, stylesheet, the chapter documents in batch order,
\* content.opf, toc.ncx; nothing is written before mimetype.
\* ------------------------------------------------------------------------
ExpectedMemberOrder ==
    <<MimetypeName, ContainerName>>
    \o (IF cover_image # None /\ cover_image # <<>> THEN <<cover_image_name>> ELSE <<>>)
    \o <<StylesName>>
    \o [n \in 1..Len(batch) |-> batch[n].file_name]
    \o <<OpfName, TocName>>

C8_PerBatchNumbering ==
    Closed =>
        LET opf == OpfOf(outzip)
            nav == SelectSeq(TocOf(outzip).navMap, LAMBDA np : np.playOrder # <<"0">>)
            chapItems == SelectSeq(opf.manifest,
                                   LAMBDA it : it.id \notin {CoverId, CssId, NcxId})
        IN  /\ opf.spine = [n \in 1..Len(batch) |-> ChapPrefix \o Str(n)]
            /\ Len(chapItems) = Len(batch)
            /\ Len(nav) = Len(batch)
            /\ \A n \in 1..Len(batch) :
                  /\ chapItems[n].id = ChapPrefix \o Str(n)
                  /\ chapItems[n].href = batch[n].file_name
                  /\ nav[n].id = NavPointPrefix \o Str(n)
                  /\ nav[n].playOrder = Str(n)
                  /\ nav[n].src = batch[n].file_name
            /\ \A k \in 1..Len(opf.spine) : opf.spine[k] \notin {CoverId, CssId, NcxId}

C8_Witness ==
    /\ Closed
    /\ FixedMode /\ split_size = 2
    /\ Len(chapters) = 3
    /\ i = 2
    /\ batch = <<chapters[3]>>
    /\ OpfOf(outzip).spine = << <<"c", "h", "a", "p", "1">> >>

\* ------------------------------------------------------------------------
\* C9  Output naming and overwrite in a fixed-size run of k >= 1 batches.
\* As claimed: with an explicit title every batch goes to the one path made
\* of the title with its whitespace runs collapsed to "_" plus ".epub", and
\* one file, holding the last batch, exists after the run; without a title
\* every batch goes to {baseName}_{start}_{end}.epub and k files exist.
\* ------------------------------------------------------------------------
TitledPathAsClaimed == output_dir \o CollapseSpaces(config.title) \o DotEpub

NumberedPath ==
    output_dir \o base_name \o <<"_">> \o Str(start_chapter) \o <<"_">>
               \o Str(end_chapter) \o DotEpub

HoldsLastBatch(c) ==
    /\ ChapterDocs(c) = DocsOf(chapter_batches[Len(chapter_batches)])
    /\ OpfOf(c).identifier = Identifier(Len(chapter_batches))

C9_AsClaimed ==
    (FixedMode /\ InBatch) =>
        IF config.title # None
          THEN /\ output_name = TitledPathAsClaimed
               /\ (pc = "done" =>
                      /\ DOMAIN disk = {TitledPathAsClaimed}
                      /\ HoldsLastBatch(disk[TitledPathAsClaimed]))
          ELSE /\ output_name = NumberedPath
               /\ (pc = "done" => Cardinality(DOMAIN disk) = Len(chapter_batches))

\* C9 as amended: the title counts as given when it is not empty, and its
\* leading and trailing whitespace is removed before the runs are collapsed.
TitledPath == output_dir \o CollapseSpaces(strip(config.title)) \o DotEpub

C9_NamingAndOverwrite ==
    (FixedMode /\ InBatch) =>
        IF config.title # None /\ config.title # <<>>
          THEN /\ output_name = TitledPath
               /\ (pc = "done" =>
                      /\ DOMAIN disk = {TitledPath}
                      /\ HoldsLastBatch(disk[TitledPath]))
          ELSE /\ output_name = NumberedPath
               /\ output_name \in DOMAIN disk
               /\ (pc = "done" => Cardinality(DOMAIN disk) = Len(chapter_batches))

C9_Witness ==
    /\ FixedMode /\ pc = "done"
    /\ config.title = <<" ", "a", " ", " ", "b">>
    /\ Len(chapter_batches) = 3
    /\ DOMAIN disk = {output_dir \o <<"a", "_", "b">> \o DotEpub}

\* ------------------------------------------------------------------------
\* C10  The declared range of a batch is its content: in either mode
\* (startPosition, endPosition), as used in the display title and the file
\* name, are the original positions of the first and last chapter of the
\* batch, endPosition - startPosition + 1 is the number of its chapters,
\* and in fixed-size mode startPosition = (index-1)*size + 1.
\* ------------------------------------------------------------------------
C10_DeclaredRange ==
    InBatch =>
        /\ 1 <= start_chapter
        /\ start_chapter <= end_chapter
        /\ end_chapter <= Len(chapters)
        /\ end_chapter - start_chapter + 1 = Len(batch)
        /\ \A n \in 1..Len(batch) : batch[n] = chapters[start_chapter + n - 1]
        /\ (FixedMode => start_chapter = (i - 1) * split_size + 1)
        /\ (config.title \in {None, <<>>} =>
               /\ part_title = base_name \o <<" ">> \o Str(start_chapter) \o <<"-">>
                                         \o Str(end_chapter)
               /\ output_name = NumberedPath)

C10_Witness ==
    /\ InBatch
    /\ FixedMode /\ split_size = 2
    /\ i = 2
    /\ start_chapter = 3 /\ end_chapter = 3
    /\ batch = <<chapters[3]>>
    /\ config.title = None
    /\ part_title = <<"b", "k", " ", "3", "-", "3">>

====
